---- MODULE Spec2Model ----
(***************************************************************************)
(* S3Cache (src/s3cache/s3cache.py): a cachelib BaseCache whose entries    *)
(* are pickled objects in an S3 bucket, stored at key_prefix + key.        *)
(*                                                                         *)
(* The model follows every public method up to each request it sends to    *)
(* the S3 client.  A call is a short sequence of steps, one per request,   *)
(* so that other callers and a callable key prefix can act in between.     *)
(***************************************************************************)
EXTENDS Integers, Sequences, FiniteSets, TLC

(* ------------------------------ bounds -------------------------------- *)

\* picklable cache values are 1..NumValues
NumValues == 2
\* callers sharing the cache object are 1..NumCallers
NumCallers == 2
\* completed calls remembered in hist
HistLen == 2
\* timeouts passed to set and add are None or 0..MaxTimeout seconds
MaxTimeout == 1

(* ------------------------------ universe ------------------------------ *)

\* a value pickle.dump refuses (a lambda, an open socket)
Unpicklable == 0
Values == 1..NumValues
AllValues == {Unpicklable} \cup Values

\* logical cache keys and key prefixes: strings, as sequences of characters
Keys == {<<"b">>, <<"a", "b">>}
Prefixes == {<<"p">>, <<"p", "a">>}
BucketNames == {"cache", "other"}
Callers == 1..NumCallers

\* the timeout argument of set and add: None (the default), or a number of seconds
NoTimeout == [given |-> FALSE, secs |-> 0]
Timeouts == {NoTimeout} \cup {[given |-> TRUE, secs |-> t] : t \in 0..MaxTimeout}

VARIABLES
    store,        \* S3: store[b] maps the object keys present in bucket b to their bytes
    bucket,       \* self.bucket
    prefix_src,   \* self._key_prefix: [callable, value]; value is what the string is,
                  \*   or what the callable returns when called now
    call,         \* call[c]: the method call caller c is in
    hist          \* the last completed calls, oldest first (observation only, see Remember)

vars == <<store, bucket, prefix_src, call, hist>>

(* ------------------------------ results ------------------------------- *)

RetTrue == [tag |-> "True", v |-> 0]
RetFalse == [tag |-> "False", v |-> 0]
RetNone == [tag |-> "None", v |-> 0]
Pending == [tag |-> "pending", v |-> 0]
RetValue(v) == [tag |-> "value", v |-> v]
\* the call did not return: exception e left the method
Raised(e) == [tag |-> e, v |-> 0]

IsRaise(r) == r.tag \in {"PicklingError", "UnpicklingError"}

(* ------------------------------ pickle -------------------------------- *)

\* bytes that are no pickle stream (written to the bucket by something else)
Junk == [fmt |-> "junk", body |-> 0]

Picklable(v) == v # Unpicklable

\* pickle.dump(value, value_file): the bytes left in value_file
pickle_dump(v) == [fmt |-> "pickle", body |-> v]

Loadable(b) == b.fmt = "pickle"

\* pickle.load(value_file)
pickle_load(b) == b.body

Blobs == {pickle_dump(v) : v \in Values} \cup {Junk}

(* ------------------------------ key derivation ------------------------ *)

\* the key_prefix property
key_prefix == prefix_src.value

\* (mutant) the key left out: every entry under the prefix alone
full_s3_key_prefix_only(pfx, key) == pfx

\* (mutant) the prefix put after the key
full_s3_key_swapped(pfx, key) == key \o pfx

\* _full_s3_key(key), with the prefix the property returned
full_s3_key(pfx, key) == pfx \o key

ObjKeys == {full_s3_key(p, k) : p \in Prefixes, k \in Keys}

(* ------------------------------ S3 ------------------------------------ *)

Exists(s, b, k) == k \in DOMAIN s[b]

\* the bytes at key k of bucket b, NoObject when there is no such object
NoObject == [fmt |-> "none", body |-> 0]
ObjectAt(s, b, k) == IF Exists(s, b, k) THEN s[b][k] ELSE NoObject

\* (mutant) a conditional write: only when the key holds nothing
Put_if_absent(s, b, k, bytes) ==
    IF k \in DOMAIN s[b] THEN s
    ELSE [s EXCEPT ![b] = [x \in (DOMAIN s[b]) \cup {k} |-> IF x = k THEN bytes ELSE s[b][x]]]

Put(s, b, k, bytes) ==
    [s EXCEPT ![b] = [x \in (DOMAIN s[b]) \cup {k} |-> IF x = k THEN bytes ELSE s[b][x]]]

Remove(s, b, k) ==
    [s EXCEPT ![b] = [x \in (DOMAIN s[b]) \ {k} |-> s[b][x]]]

\* How a request can end.  "ok": served.  "404": the object is not there and the
\* client raises ClientError.  "error": the request fails (network, credentials,
\* throttling) and the client raises, nothing changed.  "lost_reply": the request
\* was applied but the client raises all the same (the reply timed out).
HeadOutcomes(s, b, k) ==
    (IF Exists(s, b, k) THEN {"ok"} ELSE {"404"}) \cup {"error"}

DownloadOutcomes(s, b, k) ==
    (IF Exists(s, b, k) THEN {"ok"} ELSE {"404"}) \cup {"error"}

UploadOutcomes == {"ok", "error", "lost_reply"}

DeleteOutcomes == {"ok", "error", "lost_reply"}

RaisesException(o) == o # "ok"
Applied(o) == o \in {"ok", "lost_reply"}
\* a failure that is not the truthful "no such object"
Fault(o) == o \in {"error", "lost_reply"}

\* the extra arguments a request carries: which configured map, and the expiry they
\* ask S3 to give the object (none of the configured maps is modelled as asking one)
ExtraArgs(api) ==
    [map |-> CASE api = "head_object" -> "head_extra_args"
               [] api = "download_fileobj" -> "get_extra_args"
               [] api = "upload_fileobj" -> "put_extra_args"
               [] OTHER -> "none",
     expires |-> NoTimeout]

\* (mutant) set hands its timeout to S3 as the expiry of the object
upload_extra_args_expiring(timeout) == [map |-> "put_extra_args", expires |-> timeout]

\* set: ExtraArgs=self.put_extra_args, whatever the timeout argument is
upload_extra_args(timeout) == ExtraArgs("upload_fileobj")

Request(api, b, k, o) ==
    [api |-> api, bucket |-> b, key |-> k, outcome |-> o, extra |-> ExtraArgs(api)]

(* ------------------------------ method bodies ------------------------- *)

\* (mutant) the except branch returns True as well
key_exists_always(o) == TRUE

\* (mutant) only the missing object counts as absent, other errors as present
key_exists_unless_404(o) == o # "404"

\* _key_exists: False when head_object raised, True otherwise
key_exists(o) == ~RaisesException(o)

\* get, after download_fileobj: None when it raised, else pickle.load of the bytes,
\* which is outside the try block
get_result(o, bytes) ==
    IF RaisesException(o) THEN RetNone
    ELSE IF Loadable(bytes) THEN RetValue(pickle_load(bytes))
    ELSE Raised("UnpicklingError")

\* (mutant) the except branch of delete falls through to return True
delete_result_always_true(o) == RetTrue

\* delete, after delete_objects
delete_result(o) == IF RaisesException(o) THEN RetFalse ELSE RetTrue

\* (mutant) the except branch of set falls through to return True
set_result_always_true(o) == RetTrue

\* set, after upload_fileobj
set_result(o) == IF RaisesException(o) THEN RetFalse ELSE RetTrue

\* (mutant) clear reports success
clear_result_true == RetTrue

\* clear
clear_result == RetFalse

\* (mutant) add without the existence test
add_goes_on_always(exists) == TRUE

\* add: return False when the key exists, else go on to set
add_goes_on(exists) == ~exists

\* (mutants) the existence test of get, of delete, without its "not"
get_goes_on_inverted(exists) == ~exists
delete_goes_on_inverted(exists) == ~exists

\* get: return None when the key does not exist, else go on to the download
get_goes_on(exists) == exists

\* delete: return False when the key does not exist, else go on to delete_objects
delete_goes_on(exists) == exists

(* ------------------------------ calls --------------------------------- *)

\* op, key, value: the method and its arguments; pc: the request that comes next;
\* ret: how the call ended; value_file: the BytesIO buffer of set; reqs: the requests
\* sent so far; before: the object at key_prefix + key when the call began
\* (reqs and before are observation only)
Idle == [op |-> "none", key |-> <<>>, value |-> 0, pc |-> "idle", ret |-> Pending,
         reqs |-> <<>>, value_file |-> Junk, before |-> NoObject, timeout |-> NoTimeout]

NewCall(op, k, v, pc) ==
    [op |-> op, key |-> k, value |-> v, pc |-> pc, ret |-> Pending, reqs |-> <<>>,
     value_file |-> Junk,
     before |-> ObjectAt(store, bucket, key_prefix \o k),
     timeout |-> NoTimeout]

Finish(cl, r) == [cl EXCEPT !.pc = "done", !.ret = r]

\* (mutant) pickle.dump moved inside the try block of set
EnterSet_swallow(cl) ==
    IF Picklable(cl.value)
    THEN [cl EXCEPT !.pc = "upload", !.value_file = pickle_dump(cl.value)]
    ELSE Finish(cl, RetFalse)

\* the first two statements of set: pickle.dump raises, or the upload is next
EnterSet(cl) ==
    IF Picklable(cl.value)
    THEN [cl EXCEPT !.pc = "upload", !.value_file = pickle_dump(cl.value)]
    ELSE Finish(cl, Raised("PicklingError"))

Log(cl, rq) == [cl EXCEPT !.reqs = Append(@, rq)]

Get(c, k) ==
    /\ call[c].pc = "idle"
    /\ call' = [call EXCEPT ![c] = NewCall("get", k, 0, "head")]
    /\ UNCHANGED <<store, bucket, prefix_src, hist>>

Delete(c, k) ==
    /\ call[c].pc = "idle"
    /\ call' = [call EXCEPT ![c] = NewCall("delete", k, 0, "head")]
    /\ UNCHANGED <<store, bucket, prefix_src, hist>>

Add(c, k, v) ==
    /\ call[c].pc = "idle"
    /\ call' = [call EXCEPT ![c] = NewCall("add", k, v, "head")]
    /\ UNCHANGED <<store, bucket, prefix_src, hist>>

Set(c, k, v) ==
    /\ call[c].pc = "idle"
    /\ call' = [call EXCEPT ![c] = EnterSet(NewCall("set", k, v, "enter"))]
    /\ UNCHANGED <<store, bucket, prefix_src, hist>>

\* set(key, value, timeout) and add(key, value, timeout) with the timeout given;
\* add passes it on to set
SetTimeout(c, k, v, t) ==
    /\ call[c].pc = "idle"
    /\ t.given
    /\ call' = [call EXCEPT ![c] =
                   EnterSet([NewCall("set", k, v, "enter") EXCEPT !.timeout = t])]
    /\ UNCHANGED <<store, bucket, prefix_src, hist>>

AddTimeout(c, k, v, t) ==
    /\ call[c].pc = "idle"
    /\ t.given
    /\ call' = [call EXCEPT ![c] = [NewCall("add", k, v, "head") EXCEPT !.timeout = t]]
    /\ UNCHANGED <<store, bucket, prefix_src, hist>>

Clear(c) ==
    /\ call[c].pc = "idle"
    /\ call' = [call EXCEPT ![c] = Finish(NewCall("clear", <<>>, 0, "enter"), clear_result)]
    /\ UNCHANGED <<store, bucket, prefix_src, hist>>

\* _key_exists(key), and the branch the caller takes on its result
HeadObject(c) ==
    /\ call[c].pc = "head"
    /\ LET cl == call[c]
           k == full_s3_key(key_prefix, cl.key)
       IN \E o \in HeadOutcomes(store, bucket, k) :
            LET logged == Log(cl, Request("head_object", bucket, k, o))
                exists == key_exists(o)
            IN call' = [call EXCEPT ![c] =
                 CASE cl.op = "get" ->
                        IF get_goes_on(exists) THEN [logged EXCEPT !.pc = "download"]
                        ELSE Finish(logged, RetNone)
                   [] cl.op = "delete" ->
                        IF delete_goes_on(exists) THEN [logged EXCEPT !.pc = "delete"]
                        ELSE Finish(logged, RetFalse)
                   [] OTHER ->
                        IF add_goes_on(exists) THEN EnterSet(logged)
                        ELSE Finish(logged, RetFalse)]
    /\ UNCHANGED <<store, bucket, prefix_src, hist>>

\* (mutant) get evicts the entry whose download raised
Download_evict(c) ==
    /\ call[c].pc = "download"
    /\ LET cl == call[c]
           k == full_s3_key(key_prefix, cl.key)
       IN \E o \in DownloadOutcomes(store, bucket, k) :
            LET bytes == IF o = "ok" THEN store[bucket][k] ELSE Junk
            IN /\ store' = IF RaisesException(o) THEN Remove(store, bucket, k) ELSE store
               /\ call' = [call EXCEPT ![c] =
                    Finish(Log(cl, Request("download_fileobj", bucket, k, o)),
                           get_result(o, bytes))]
    /\ UNCHANGED <<bucket, prefix_src, hist>>

\* get: download_fileobj and what follows it
Download(c) ==
    /\ call[c].pc = "download"
    /\ LET cl == call[c]
           k == full_s3_key(key_prefix, cl.key)
       IN \E o \in DownloadOutcomes(store, bucket, k) :
            LET bytes == IF o = "ok" THEN store[bucket][k] ELSE Junk
            IN call' = [call EXCEPT ![c] =
                 Finish(Log(cl, Request("download_fileobj", bucket, k, o)),
                        get_result(o, bytes))]
    /\ UNCHANGED <<store, bucket, prefix_src, hist>>

\* delete: delete_objects and what follows it
DeleteObjects(c) ==
    /\ call[c].pc = "delete"
    /\ LET cl == call[c]
           k == full_s3_key(key_prefix, cl.key)
       IN \E o \in DeleteOutcomes :
            /\ store' = IF Applied(o) THEN Remove(store, bucket, k) ELSE store
            /\ call' = [call EXCEPT ![c] =
                 Finish(Log(cl, Request("delete_objects", bucket, k, o)),
                        delete_result(o))]
    /\ UNCHANGED <<bucket, prefix_src, hist>>

\* (mutant) set tries the upload again when it raised
Upload_retry(c) ==
    /\ call[c].pc = "upload"
    /\ LET cl == call[c]
           k == full_s3_key(key_prefix, cl.key)
       IN \E o \in UploadOutcomes :
            /\ store' = IF Applied(o) THEN Put(store, bucket, k, cl.value_file) ELSE store
            /\ call' = [call EXCEPT ![c] =
                 IF RaisesException(o)
                 THEN Log(cl, Request("upload_fileobj", bucket, k, o))
                 ELSE Finish(Log(cl, Request("upload_fileobj", bucket, k, o)), RetTrue)]
    /\ UNCHANGED <<bucket, prefix_src, hist>>

\* set (also reached from add): upload_fileobj and what follows it
Upload(c) ==
    /\ call[c].pc = "upload"
    /\ LET cl == call[c]
           k == full_s3_key(key_prefix, cl.key)
       IN \E o \in UploadOutcomes :
            /\ store' = IF Applied(o) THEN Put(store, bucket, k, cl.value_file) ELSE store
            /\ call' = [call EXCEPT ![c] =
                 Finish(Log(cl, [Request("upload_fileobj", bucket, k, o)
                                   EXCEPT !.extra = upload_extra_args(cl.timeout)]),
                        set_result(o))]
    /\ UNCHANGED <<bucket, prefix_src, hist>>

\* some request of the call failed for another reason than a missing object
Faulted(cl) == \E i \in 1..Len(cl.reqs) : Fault(cl.reqs[i].outcome)

\* what hist keeps of a completed call
Entry(cl) == [op |-> cl.op, key |-> cl.key, value |-> cl.value, ret |-> cl.ret]

\* hist: the latest run of completed calls that met no storage fault, HistLen at most
Remember(h, cl) ==
    IF Faulted(cl) THEN <<>>
    ELSE IF Len(h) < HistLen THEN Append(h, Entry(cl))
    ELSE Append(Tail(h), Entry(cl))

\* the call is over (returned or raised); the caller may call again
Return(c) ==
    /\ call[c].pc = "done"
    /\ call' = [call EXCEPT ![c] = Idle]
    /\ UNCHANGED <<store, bucket, prefix_src, hist>>

\* the same, with the completed call remembered in hist
ReturnLogged(c) ==
    /\ call[c].pc = "done"
    /\ call' = [call EXCEPT ![c] = Idle]
    /\ hist' = Remember(hist, call[c])
    /\ UNCHANGED <<store, bucket, prefix_src>>

\* the callable given as key_prefix starts returning another string
PrefixChange ==
    /\ prefix_src.callable
    /\ \E p \in Prefixes \ {prefix_src.value} :
         prefix_src' = [prefix_src EXCEPT !.value = p]
    /\ UNCHANGED <<store, bucket, call, hist>>

(* ------------------------------ specifications ------------------------ *)

\* the bucket holds whatever it held before the cache object was constructed
InitStore ==
    \E objs \in SUBSET ObjKeys : \E content \in [objs -> Blobs] :
        store = [b \in BucketNames |-> IF b = bucket THEN content ELSE <<>>]

InitCommon ==
    /\ bucket = "cache"
    /\ call = [c \in Callers |-> Idle]
    /\ hist = <<>>
    /\ InitStore

\* one caller, key_prefix a string
Init ==
    /\ InitCommon
    /\ \E p \in Prefixes : prefix_src = [callable |-> FALSE, value |-> p]

\* a caller's steps, but for the return
Step(c) ==
    \/ \E k \in Keys : Get(c, k)
    \/ \E k \in Keys : Delete(c, k)
    \/ \E k \in Keys, v \in AllValues : Set(c, k, v)
    \/ \E k \in Keys, v \in AllValues : Add(c, k, v)
    \/ Clear(c)
    \/ HeadObject(c)
    \/ Download(c)
    \/ DeleteObjects(c)
    \/ Upload(c)

Next == Step(1) \/ Return(1)

Spec == Init /\ [][Next]_vars

\* the same caller with the key prefix "p" on a bucket that starts empty, with the
\* last HistLen completed calls observed
InitSeq ==
    /\ bucket = "cache"
    /\ call = [c \in Callers |-> Idle]
    /\ hist = <<>>
    /\ store = [b \in BucketNames |-> <<>>]
    /\ prefix_src = [callable |-> FALSE, value |-> <<"p">>]

NextSeq == Step(1) \/ ReturnLogged(1)

SpecSeq == InitSeq /\ [][NextSeq]_vars

\* one caller, key_prefix a string, set and add called with and without a timeout
NextTimeout ==
    \/ Step(1)
    \/ \E k \in Keys, v \in AllValues, t \in Timeouts : SetTimeout(1, k, v, t)
    \/ \E k \in Keys, v \in AllValues, t \in Timeouts : AddTimeout(1, k, v, t)
    \/ Return(1)

SpecTimeout == Init /\ [][NextTimeout]_vars

\* one caller, key_prefix a callable whose result changes as time passes
InitDyn ==
    /\ InitCommon
    /\ \E p \in Prefixes : prefix_src = [callable |-> TRUE, value |-> p]

NextDyn == Step(1) \/ Return(1) \/ PrefixChange

SpecDyn == InitDyn /\ [][NextDyn]_vars

\* the key the concurrent callers contend for
ConcKey == <<"b">>

\* every caller of Callers making one call of get, delete or add on ConcKey, all at
\* once, their requests interleaved; key prefix "p", the bucket holding anything
\* under the cache's keys
InitConc ==
    /\ bucket = "cache"
    /\ call = [c \in Callers |-> Idle]
    /\ hist = <<>>
    /\ prefix_src = [callable |-> FALSE, value |-> <<"p">>]
    /\ \E objs \in SUBSET {<<"p">> \o k : k \in Keys} : \E content \in [objs -> Blobs] :
          store = [b \in BucketNames |-> IF b = bucket THEN content ELSE <<>>]

StepConc(c) ==
    \/ Get(c, ConcKey)
    \/ Delete(c, ConcKey)
    \/ \E v \in Values : Add(c, ConcKey, v)
    \/ HeadObject(c)
    \/ Download(c)
    \/ DeleteObjects(c)
    \/ Upload(c)

NextConc == \E c \in Callers : StepConc(c)

SpecConc == InitConc /\ [][NextConc]_vars

(* ------------------------------ properties ---------------------------- *)

\* the call of the one caller of Spec and SpecSeq
Cur == call[1]

Completed(op) == Cur.pc = "done" /\ Cur.op = op
Existed(cl) == cl.before # NoObject
Sent(cl, api) == \E i \in 1..Len(cl.reqs) : cl.reqs[i].api = api
\* the object the call is about, as the bucket holds it now
ObjectNow(cl) == ObjectAt(store, bucket, prefix_src.value \o cl.key)

\* position i of hist is a set(k, v) that returned True, and no later remembered
\* call was on k
LastSetAt(i, k, v) ==
    /\ hist[i] = [op |-> "set", key |-> k, value |-> v, ret |-> RetTrue]
    /\ \A j \in (i + 1)..Len(hist) : hist[j].key # k

\* C1 as stated: after set(k, v) returned True, the next get(k) returns v, whatever
\* happens to the requests of that get.
C1_GetAfterSet_AsStated ==
    \A i \in 1..Len(hist) : \A v \in Values :
        (Completed("get") /\ LastSetAt(i, Cur.key, v)) => Cur.ret = RetValue(v)

\* C1, amended: after set(k, v) returned True, the next get(k) returns v provided
\* neither its head_object nor its download failed for another reason than a
\* missing object; calls on other keys may come in between, the prefix is fixed.
C1_GetAfterSet ==
    \A i \in 1..Len(hist) : \A v \in Values :
        (Completed("get") /\ ~Faulted(Cur) /\ LastSetAt(i, Cur.key, v))
            => Cur.ret = RetValue(v)

\* a get returned the value of a set that overwrote a different value
C1_Witness ==
    /\ Completed("get")
    /\ Len(hist) = 2
    /\ \E v \in Values, w \in Values :
         /\ v # w
         /\ hist[1] = [op |-> "set", key |-> Cur.key, value |-> w, ret |-> RetTrue]
         /\ hist[2] = [op |-> "set", key |-> Cur.key, value |-> v, ret |-> RetTrue]
         /\ Cur.ret = RetValue(v)

\* C2: when no object is at prefix + k, get(k) returns None and delete(k) returns
\* False, whatever the bucket holds under other keys.
C2_AbsentKey ==
    /\ (Completed("get") /\ ~Existed(Cur)) => Cur.ret = RetNone
    /\ (Completed("delete") /\ ~Existed(Cur)) => Cur.ret = RetFalse

\* delete(k) of a missing key returned False while the bucket holds other objects
C2_Witness ==
    /\ Completed("delete")
    /\ ~Existed(Cur)
    /\ Cur.ret = RetFalse
    /\ Len(Cur.reqs) = 1 /\ Cur.reqs[1].outcome = "404"
    /\ DOMAIN store[bucket] # {}

\* C3: without storage faults, add(k, v1) on an absent key returns True, the add(k, v2)
\* right after it (v2 # v1) returns False, and the get(k) after that returns v1.
\* (v1 is a value pickle accepts.)
C3_AddTwice ==
    /\ (Completed("add") /\ ~Faulted(Cur) /\ ~Existed(Cur) /\ Picklable(Cur.value))
           => Cur.ret = RetTrue
    /\ \A v1 \in Values :
         (/\ Completed("add") /\ ~Faulted(Cur)
          /\ Len(hist) >= 1
          /\ hist[Len(hist)] = [op |-> "add", key |-> Cur.key, value |-> v1, ret |-> RetTrue]
          /\ Cur.value # v1)
           => (Cur.ret = RetFalse /\ ObjectNow(Cur) = pickle_dump(v1))
    /\ \A v1 \in Values :
         (/\ Completed("get") /\ ~Faulted(Cur)
          /\ Len(hist) >= 2
          /\ hist[Len(hist) - 1] = [op |-> "add", key |-> Cur.key, value |-> v1, ret |-> RetTrue]
          /\ hist[Len(hist)].op = "add" /\ hist[Len(hist)].key = Cur.key
          /\ hist[Len(hist)].value # v1)
           => (hist[Len(hist)].ret = RetFalse /\ Cur.ret = RetValue(v1))

\* add, add with another value, get: the get returned the first value
C3_Witness ==
    /\ Completed("get") /\ ~Faulted(Cur)
    /\ Len(hist) = 2
    /\ \E v1 \in Values, v2 \in Values :
         /\ v1 # v2
         /\ hist[1] = [op |-> "add", key |-> Cur.key, value |-> v1, ret |-> RetTrue]
         /\ hist[2] = [op |-> "add", key |-> Cur.key, value |-> v2, ret |-> RetFalse]
         /\ Cur.ret = RetValue(v1)

\* C4 as stated: whatever the outcome of each request, add(k, v) called while an
\* object is at prefix + k returns False and leaves that object as it was
\* (stated for the values pickle accepts).
C4_AddNeverOverwrites ==
    (Cur.op = "add" /\ Existed(Cur) /\ Picklable(Cur.value)) =>
        /\ ObjectNow(Cur) = Cur.before
        /\ Cur.pc = "done" => Cur.ret = RetFalse

\* C5: without storage faults, the delete(k) after a set(k, v) that returned True
\* returns True, and the get(k) after it returns None.
C5_DeleteAfterSet ==
    /\ \A v \in Values :
         (/\ Completed("delete") /\ ~Faulted(Cur)
          /\ Len(hist) >= 1
          /\ hist[Len(hist)] = [op |-> "set", key |-> Cur.key, value |-> v, ret |-> RetTrue])
           => (Cur.ret = RetTrue /\ ObjectNow(Cur) = NoObject)
    /\ \A v \in Values :
         (/\ Completed("get") /\ ~Faulted(Cur)
          /\ Len(hist) >= 2
          /\ hist[Len(hist) - 1] = [op |-> "set", key |-> Cur.key, value |-> v, ret |-> RetTrue]
          /\ hist[Len(hist)].op = "delete" /\ hist[Len(hist)].key = Cur.key)
           => (hist[Len(hist)].ret = RetTrue /\ Cur.ret = RetNone)

\* set, delete, get: the delete returned True and the get None
C5_Witness ==
    /\ Completed("get") /\ ~Faulted(Cur)
    /\ Len(hist) = 2
    /\ \E v \in Values :
         hist[1] = [op |-> "set", key |-> Cur.key, value |-> v, ret |-> RetTrue]
    /\ hist[2] = [op |-> "delete", key |-> Cur.key, value |-> 0, ret |-> RetTrue]
    /\ Cur.ret = RetNone

\* C6 as stated: get never raises; a failed download and bytes that do not
\* deserialize both end in None.
C6_GetNeverRaises ==
    Completed("get") => ~IsRaise(Cur.ret)

\* C7: clear() returns False at once, sends no request and changes no object.
C7_ClearDoesNothing ==
    [][\A c \in Callers :
          (call[c].pc = "idle" /\ call'[c].op = "clear") =>
              /\ call'[c].pc = "done"
              /\ call'[c].ret = RetFalse
              /\ call'[c].reqs = <<>>
              /\ store' = store]_vars

\* clear() has returned on a bucket that holds objects
C7_Witness ==
    /\ Completed("clear")
    /\ Cur.ret = RetFalse
    /\ DOMAIN store[bucket] # {}

\* C8: every request of a get, set, add or delete on key k names self.bucket and the
\* object key prefix + k.
C8_RequestTarget ==
    \A c \in Callers : \A i \in 1..Len(call[c].reqs) :
        /\ call[c].reqs[i].bucket = bucket
        /\ call[c].reqs[i].key = prefix_src.value \o call[c].key

\* a get has sent its head_object and its download_fileobj
C8_Witness ==
    /\ Completed("get")
    /\ Len(Cur.reqs) = 2
    /\ Cur.reqs[2].api = "download_fileobj"
    /\ Cur.reqs[2].key = prefix_src.value \o Cur.key

\* C9: when upload_fileobj raises, set and add return False and raise nothing; set
\* returns True exactly when upload_fileobj returned without raising.
C9_UploadFailure ==
    /\ \A op \in {"set", "add"} :
         (/\ Completed(op)
          /\ \E i \in 1..Len(Cur.reqs) :
                /\ Cur.reqs[i].api = "upload_fileobj"
                /\ RaisesException(Cur.reqs[i].outcome))
           => Cur.ret = RetFalse
    /\ Completed("set") =>
         (Cur.ret = RetTrue <=>
            \E i \in 1..Len(Cur.reqs) :
                /\ Cur.reqs[i].api = "upload_fileobj"
                /\ Cur.reqs[i].outcome = "ok")

\* an add on an absent key returned False because its upload raised
C9_Witness ==
    /\ Completed("add")
    /\ ~Existed(Cur)
    /\ Len(Cur.reqs) = 2
    /\ Cur.reqs[1].outcome = "404"
    /\ Cur.reqs[2].api = "upload_fileobj" /\ Cur.reqs[2].outcome = "error"
    /\ Cur.ret = RetFalse

\* C10: when pickle.dump refuses the value, set(k, v) raises the pickling error,
\* sends no upload and leaves the object at prefix + k as it was; add(k, v) on an
\* absent key raises the same error.
C10_PicklingErrorPropagates ==
    /\ (Completed("set") /\ ~Picklable(Cur.value)) =>
          /\ Cur.ret = Raised("PicklingError")
          /\ ~Sent(Cur, "upload_fileobj")
          /\ ObjectNow(Cur) = Cur.before
    /\ (Completed("add") /\ ~Picklable(Cur.value) /\ ~Existed(Cur)) =>
          /\ Cur.ret = Raised("PicklingError")
          /\ ~Sent(Cur, "upload_fileobj")
          /\ ObjectNow(Cur) = Cur.before

\* set of an unpicklable value has raised while an object is stored under the key
C10_Witness ==
    /\ Completed("set")
    /\ ~Picklable(Cur.value)
    /\ Existed(Cur)
    /\ Cur.ret = Raised("PicklingError")

\* C11: delete(k) returns True exactly when head_object found the key and
\* delete_objects raised nothing; when the probe reports absence no delete_objects is
\* sent and the result is False; when delete_objects raises the result is False and
\* nothing is raised to the caller.
C11_DeleteResult ==
    Completed("delete") =>
        /\ Len(Cur.reqs) >= 1 /\ Cur.reqs[1].api = "head_object"
        /\ Cur.ret \in {RetTrue, RetFalse}
        /\ Cur.ret = RetTrue <=>
              /\ Cur.reqs[1].outcome = "ok"
              /\ Len(Cur.reqs) = 2
              /\ Cur.reqs[2].api = "delete_objects"
              /\ Cur.reqs[2].outcome = "ok"
        /\ RaisesException(Cur.reqs[1].outcome) => ~Sent(Cur, "delete_objects")
        /\ Cur.reqs[1].outcome = "ok" => (Len(Cur.reqs) = 2 /\ Cur.reqs[2].api = "delete_objects")

\* a delete found the key, its delete_objects raised, and it returned False
C11_Witness ==
    /\ Completed("delete")
    /\ Len(Cur.reqs) = 2
    /\ Cur.reqs[1].outcome = "ok"
    /\ Cur.reqs[2].api = "delete_objects" /\ Cur.reqs[2].outcome = "error"
    /\ Cur.ret = RetFalse

\* C12: add is no atomic test-and-set.  An add whose probe found the key absent goes
\* on to upload whatever other callers stored meanwhile: it returns True when its
\* upload did not raise, and its upload replaces the object, so that of two such adds
\* both return True and the value of the later upload stays.
C12_AddRace ==
    [][\A c \in Callers :
          (call[c].op = "add" /\ call[c].pc = "upload" /\ call'[c].pc = "done") =>
              LET rq == call'[c].reqs[Len(call'[c].reqs)]
              IN /\ rq.api = "upload_fileobj"
                 /\ call'[c].ret = RetTrue <=> rq.outcome = "ok"
                 /\ Applied(rq.outcome) =>
                       ObjectAt(store', bucket, prefix_src.value \o call[c].key)
                           = pickle_dump(call[c].value)]_vars

\* two adds of different values on the same absent key have both returned True:
\* both probes ran before either upload
C12_Witness ==
    \E c \in Callers, d \in Callers :
        /\ c # d
        /\ call[c].op = "add" /\ call[d].op = "add"
        /\ call[c].pc = "done" /\ call[d].pc = "done"
        /\ call[c].key = call[d].key
        /\ call[c].value # call[d].value
        /\ call[c].before = NoObject /\ call[d].before = NoObject
        /\ call[c].reqs[1].outcome = "404" /\ call[d].reqs[1].outcome = "404"
        /\ call[c].ret = RetTrue /\ call[d].ret = RetTrue
        /\ ObjectAt(store, bucket, prefix_src.value \o call[c].key) = pickle_dump(call[d].value)

\* what a completed set (or the set an add went on to) returns and leaves stored,
\* written without its timeout: from the value, the object before and the outcome of
\* the upload
SetOutcomeWithoutTimeout(cl) ==
    IF ~Picklable(cl.value)
    THEN /\ cl.ret = Raised("PicklingError")
         /\ ObjectNow(cl) = cl.before
    ELSE LET rq == cl.reqs[Len(cl.reqs)]
         IN /\ rq.api = "upload_fileobj"
            /\ cl.ret = (IF rq.outcome = "ok" THEN RetTrue ELSE RetFalse)
            /\ ObjectNow(cl) = (IF Applied(rq.outcome) THEN pickle_dump(cl.value)
                                ELSE cl.before)

\* C13: the timeout of set and add has no effect.  Whatever timeout is passed, the
\* result and the stored object are the same function of key, value, store and
\* request outcomes, no request carries an expiry, and an object leaves the bucket
\* only by a delete_objects request.
C13_TimeoutIgnored ==
    /\ [](/\ \A i \in 1..Len(Cur.reqs) : Cur.reqs[i].extra.expires = NoTimeout
          /\ Completed("set") => SetOutcomeWithoutTimeout(Cur)
          /\ Completed("add") =>
                IF Cur.reqs[1].outcome = "ok"
                THEN Cur.ret = RetFalse /\ ObjectNow(Cur) = Cur.before
                ELSE SetOutcomeWithoutTimeout(Cur))
    /\ [][\A b \in BucketNames : \A k \in DOMAIN store[b] :
             k \notin DOMAIN store'[b] =>
                 \E c \in Callers : call[c].pc = "delete" /\ call'[c].pc = "done"]_vars

\* a set with a timeout of one second or more overwrote an object and returned True
C13_Witness ==
    /\ Completed("set")
    /\ Cur.timeout.given /\ Cur.timeout.secs >= 1
    /\ Existed(Cur)
    /\ Cur.ret = RetTrue
    /\ ObjectNow(Cur) = pickle_dump(Cur.value)

\* the probe of the call raised: the object is missing, or the request failed
ProbeRaised(cl) ==
    /\ Len(cl.reqs) >= 1
    /\ cl.reqs[1].api = "head_object"
    /\ RaisesException(cl.reqs[1].outcome)

C15_OnePrefixPerCall ==
    \A c \in Callers : \A i \in 1..Len(call[c].reqs) : \A j \in 1..Len(call[c].reqs) :
        call[c].reqs[i].key = call[c].reqs[j].key

CountSent(cl, apis) == Cardinality({i \in 1..Len(cl.reqs) : cl.reqs[i].api \in apis})
DataApis == {"download_fileobj", "upload_fileobj", "delete_objects"}

\* C16: no retries.  A call sends at most one head_object and at most one data
\* request, each request is the last of its kind whether it raised or not, the call
\* is over once its data request is answered, and until then its next step can
\* always be taken; clear sends nothing.
C16_NoRetries ==
    \A c \in Callers :
        LET cl == call[c]
        IN /\ CountSent(cl, {"head_object"}) <= 1
           /\ CountSent(cl, DataApis) <= 1
           /\ Len(cl.reqs) = CountSent(cl, {"head_object"}) + CountSent(cl, DataApis)
           /\ CountSent(cl, DataApis) = 1 => cl.pc = "done"
           /\ cl.pc = "head" => Len(cl.reqs) = 0
           /\ cl.pc \in {"download", "delete"} => Len(cl.reqs) = 1
           /\ cl.op \in {"set", "clear"} => CountSent(cl, {"head_object"}) = 0
           /\ cl.op = "clear" => cl.reqs = <<>>
           /\ cl.pc \notin {"idle", "done"} =>
                 ENABLED (HeadObject(c) \/ Download(c) \/ DeleteObjects(c) \/ Upload(c))

\* a set whose upload raised is over after that one request
C16_Witness ==
    /\ Completed("set")
    /\ Len(Cur.reqs) = 1
    /\ Cur.reqs[1].api = "upload_fileobj"
    /\ Cur.reqs[1].outcome = "error"
    /\ Cur.ret = RetFalse

\* C17: get is read-only.  Whatever the outcome of its probe and download, a get
\* sends no upload_fileobj and no delete_objects, and no step of it changes any
\* object of any bucket.
C17_GetReadOnly ==
    /\ [](\A c \in Callers :
             call[c].op = "get" =>
                 \A i \in 1..Len(call[c].reqs) :
                     call[c].reqs[i].api \in {"head_object", "download_fileobj"})
    /\ [][\A c \in Callers :
             ((call[c].op = "get" \/ call'[c].op = "get") /\ call'[c] # call[c])
                 => store' = store]_vars

\* a get whose download failed has returned None, the object still there
C17_Witness ==
    /\ Completed("get")
    /\ Len(Cur.reqs) = 2
    /\ Cur.reqs[2].outcome = "error"
    /\ Cur.ret = RetNone
    /\ Existed(Cur)
    /\ ObjectNow(Cur) = Cur.before

\* what get(k) returns from store s when its two requests are served
GetServed(s, k) ==
    LET obj == ObjectAt(s, bucket, prefix_src.value \o k)
    IN IF obj = NoObject THEN RetNone
       ELSE IF obj.fmt = "pickle" THEN RetValue(obj.body)
       ELSE Raised("UnpicklingError")

\* C18: with a fixed prefix, no step of set(k, ..), add(k, ..) or delete(k) changes
\* an object other than the one at prefix + k: every other object of every bucket,
\* and with it the result of get(k') for every other key k', is as before.
C18_OtherKeysUntouched ==
    [][\A c \in Callers :
          ((call[c].op \in {"set", "add", "delete"} \/ call'[c].op \in {"set", "add", "delete"})
              /\ call'[c] # call[c])
          => LET k == IF call[c].op = "none" THEN call'[c].key ELSE call[c].key
             IN /\ \A b \in BucketNames : \A x \in (DOMAIN store[b]) \cup (DOMAIN store'[b]) :
                      (b # bucket \/ x # prefix_src.value \o k)
                          => ObjectAt(store', b, x) = ObjectAt(store, b, x)
                /\ \A k2 \in Keys \ {k} : GetServed(store', k2) = GetServed(store, k2)]_vars

\* a set replaced the object of its key while the other key holds an object too
C18_Witness ==
    /\ Completed("set")
    /\ Cur.ret = RetTrue
    /\ ObjectNow(Cur) # Cur.before
    /\ \E k2 \in Keys \ {Cur.key} : ObjectAt(store, bucket, prefix_src.value \o k2) # NoObject

\* this step completes a get of caller c while a delete of the same key by another
\* caller is under way
GetEndsDuringDelete(c) ==
    /\ call[c].op = "get"
    /\ call[c].pc \in {"head", "download"}
    /\ call'[c].pc = "done"
    /\ \E d \in Callers \ {c} :
          /\ call[d].op = "delete"
          /\ call[d].key = call[c].key
          /\ call[d].pc \in {"head", "delete"}

\* the bytes stored under the key of c's get at some time of its run: the object
\* there when the get began, and what the adds of other callers uploaded
StoredUnder(c) ==
    {call[c].before} \cup
        {call[d].value_file : d \in {e \in Callers \ {c} :
                                       call[e].op = "add" /\ call[e].key = call[c].key}}

\* how the get of c must have ended, by C19
GetEndedWell(c, cl) ==
    /\ ~IsRaise(cl.ret)
    /\ cl.ret.tag = "value" => pickle_dump(cl.ret.v) \in StoredUnder(c)
    /\ (Len(cl.reqs) = 2 /\ cl.reqs[2].outcome = "404") => cl.ret = RetNone

\* C19 as stated: a get(k) concurrent with a delete(k) by another caller never raises
\* and never returns a value that was not stored under k; when the object is gone
\* at the download the error is caught and get returns None, otherwise get returns
\* the stored value.
C19_GetDuringDelete_AsStated ==
    [][\A c \in Callers : GetEndsDuringDelete(c) => GetEndedWell(c, call'[c])]_vars

\* the part of C19 that is about the race: the same, for objects pickle.load reads
C19_RaceIsCaught ==
    [][\A c \in Callers :
          (GetEndsDuringDelete(c) /\ call'[c].ret # Raised("UnpicklingError"))
              => GetEndedWell(c, call'[c])]_vars

\* the object went away between the probe and the download of a get
C19_RaceSeen ==
    \E c \in Callers, d \in Callers :
        /\ call[c].op = "get" /\ call[c].pc = "done"
        /\ call[d].op = "delete" /\ call[d].pc = "done" /\ call[d].ret = RetTrue
        /\ Len(call[c].reqs) = 2
        /\ call[c].reqs[1].outcome = "ok" /\ call[c].reqs[2].outcome = "404"
        /\ call[c].ret = RetNone

====
